---- MODULE Spec2Model ----
(***************************************************************************)
(* Model of relays/client-substrate/src/error.rs: the Substrate client     *)
(* Error enum,   its adapter conversions (From impls), its context         *)
(* constructors (failed_to_...), nested and is_connection_error.           *)
(*                                                                         *)
(* An Error value is a record [variant |-> name, ...fields...].  Tuple     *)
(* variants carry their payload in f0 (and f1); struct variants carry the  *)
(* fields of the enum under their own names, with the boxed cause in       *)
(* error.  Option<T> is a sequence of length 0 (None) or 1 (Some).         *)
(* A formatted string is the sequence of the fragments written to it.      *)
(***************************************************************************)
EXTENDS Integers, Sequences, FiniteSets, TLC

VARIABLES err, lastOp, cause, wraps, pc, cur, steps, result, visited

vars == <<err, lastOp, cause, wraps, pc, cur, steps, result, visited>>

(* ------------------------------ bounds -------------------------------- *)

\* Largest number of wrapping operations applied on top of one leaf.
MaxDepth == 2

(* ------------------------------ inputs -------------------------------- *)

\* Chain types C the constructors are instantiated with.
Chains == {"Kusama", "Polkadot"}

\* HashOf<C> values (hex digits) and BlockNumberOf<C> values.
Hashes == {"abc"}
Numbers == {42}

\* StorageKey, runtime method and encoded arguments values.
StorageKeys == {"0x01"}
Methods == {"AuraApi_slot_duration"}
Arguments == {"0x00"}
StorageKeyLists == {<<"0x01", "0x02">>}

\* Sub-kinds of jsonrpsee::core::Error and their messages.
RpcKinds == {"Transport", "RestartNeeded", "Call", "RequestTimeout"}
RpcErrors == {[kind |-> k, msg |-> "rpc failure"] : k \in RpcKinds}

\* std::io::Error, codec::Error, TransactionValidityError, Health payloads.
IoErrors == {"broken pipe"}
CodecErrors == {"not enough data"}
ValidityErrors == {"Invalid(Stale)"}
Healths == {"1 peers (syncing)"}

\* tokio JoinError (Display), async_std TrySendError (Debug), RecvError (Debug).
JoinErrors == {"task 7 panicked"}
TrySendErrors == {"Full(..)", "Closed(..)"}
RecvErrors == {"RecvError"}

\* Free-text payload of Custom, ParaId and header number payloads.
Texts == {"custom failure"}
ParaIds == {2000}

(* --------------------------- the Error enum --------------------------- *)

Io(e) == [variant |-> "Io", f0 |-> e]

RpcError(e) == [variant |-> "RpcError", f0 |-> e]

ResponseParseFailed(e) == [variant |-> "ResponseParseFailed", f0 |-> e]

ChannelError(s) == [variant |-> "ChannelError", f0 |-> s]

MissingRequiredParachainHead(p, n) ==
    [variant |-> "MissingRequiredParachainHead", f0 |-> p, f1 |-> n]

FinalityProofNotFound(n) == [variant |-> "FinalityProofNotFound", f0 |-> n]

ClientNotSynced(h) == [variant |-> "ClientNotSynced", f0 |-> h]

BridgePalletIsHalted == [variant |-> "BridgePalletIsHalted"]

BridgePalletIsNotInitialized == [variant |-> "BridgePalletIsNotInitialized"]

TransactionInvalid(e) == [variant |-> "TransactionInvalid", f0 |-> e]

Custom(s) == [variant |-> "Custom", f0 |-> s]

\* Variants with fields {chain, error}.
ChainOnlyVariants ==
    {"FailedToGetSystemHealth", "FailedToReadBestFinalizedHeaderHash",
     "FailedToReadBestHeader", "FailedToReadRuntimeVersion",
     "FailedToGetPendingExtrinsics", "FailedToSubmitTransaction",
     "FailedToSubscribeJustifications"}

\* Variants that have an error: Box<Error> field.
WrappingVariants ==
    ChainOnlyVariants \cup
    {"FailedToReadHeaderHashByNumber", "FailedToReadHeaderByHash",
     "FailedToReadBlockByHash", "FailedToReadStorageValue",
     "FailedStateCall", "FailedToProveStorage"}

\* Variants without an error field.
LeafVariants ==
    {"Io", "RpcError", "ResponseParseFailed", "ChannelError",
     "MissingRequiredParachainHead", "FinalityProofNotFound",
     "ClientNotSynced", "BridgePalletIsHalted",
     "BridgePalletIsNotInitialized", "TransactionInvalid", "Custom"}

(* ------------------------ formatting of inputs ------------------------ *)

\* C::NAME
NAME(C) == C

\* format!("{hash}") of a HashOf<C>
FormatHash(h) == "0x" \o h

\* format!("{number}") of a BlockNumberOf<C>: default decimal
FormatNumber(n) == ToString(n)

(* ------------------------------- boxed -------------------------------- *)

boxed(e) == e

(* ------------------------ context constructors ------------------------ *)

failed_to_read_header_hash_by_number(C, number, e) ==
    [variant |-> "FailedToReadHeaderHashByNumber",
     chain |-> NAME(C), number |-> FormatNumber(number), error |-> boxed(e)]

failed_to_read_header_by_hash(C, hash, e) ==
    [variant |-> "FailedToReadHeaderByHash",
     chain |-> NAME(C), hash |-> FormatHash(hash), error |-> boxed(e)]

failed_to_read_block_by_hash(C, hash, e) ==
    [variant |-> "FailedToReadHeaderByHash",
     chain |-> NAME(C), hash |-> FormatHash(hash), error |-> boxed(e)]

failed_to_read_best_finalized_header_hash(C, e) ==
    [variant |-> "FailedToReadBestFinalizedHeaderHash",
     chain |-> NAME(C), error |-> boxed(e)]

failed_to_read_best_header_dropped(C, e) ==
    [variant |-> "FailedToReadBestHeader",
     chain |-> NAME(C), error |-> boxed(Custom(NAME(C)))]

failed_to_read_best_header(C, e) ==
    [variant |-> "FailedToReadBestHeader",
     chain |-> NAME(C), error |-> boxed(e)]

failed_to_read_runtime_version(C, e) ==
    [variant |-> "FailedToReadRuntimeVersion",
     chain |-> NAME(C), error |-> boxed(e)]

failed_to_read_storage_value(C, at, key, e) ==
    [variant |-> "FailedToReadStorageValue",
     chain |-> NAME(C), hash |-> FormatHash(at), key |-> key,
     error |-> boxed(e)]

failed_to_get_pending_extrinsics(C, e) ==
    [variant |-> "FailedToGetPendingExtrinsics",
     chain |-> NAME(C), error |-> boxed(e)]

failed_to_submit_transaction(C, e) ==
    [variant |-> "FailedToSubmitTransaction",
     chain |-> NAME(C), error |-> boxed(e)]

failed_state_call(C, at, method, arguments, e) ==
    [variant |-> "FailedStateCall",
     chain |-> NAME(C), hash |-> FormatHash(at), method |-> method,
     arguments |-> arguments, error |-> boxed(e)]

failed_to_prove_storage(C, at, storage_keys, e) ==
    [variant |-> "FailedToProveStorage",
     chain |-> NAME(C), hash |-> FormatHash(at),
     storage_keys |-> storage_keys, error |-> boxed(e)]

failed_to_get_system_health(C, e) ==
    [variant |-> "FailedToGetSystemHealth",
     chain |-> NAME(C), error |-> boxed(e)]

failed_to_subscribe_justification(C, e) ==
    [variant |-> "FailedToSubscribeJustifications",
     chain |-> NAME(C), error |-> boxed(e)]

(* ------------------------- adapter conversions ------------------------ *)

\* The grave accents around try_send and recv in the messages are left out.

from_io(error) == Io(error)

from_rpc(error) == RpcError(error)

from_codec(error) == ResponseParseFailed(error)

from_validity(error) == TransactionInvalid(error)

from_join(error) == ChannelError("failed to wait tokio task: " \o error)

from_try_send(error) == ChannelError("try_send has failed: " \o error)

from_recv_as_io(error) == Io("recv has failed: " \o error)

from_recv(error) == ChannelError("recv has failed: " \o error)

(* ------------------------------- nested ------------------------------- *)

Some(x) == <<x>>
None == <<>>

nested_no_health(e) ==
    CASE e.variant = "FailedToReadBestFinalizedHeaderHash" -> Some(e.error)
      [] e.variant = "FailedToReadBestHeader" -> Some(e.error)
      [] e.variant = "FailedToReadHeaderHashByNumber" -> Some(e.error)
      [] e.variant = "FailedToReadHeaderByHash" -> Some(e.error)
      [] e.variant = "FailedToReadBlockByHash" -> Some(e.error)
      [] e.variant = "FailedToReadStorageValue" -> Some(e.error)
      [] e.variant = "FailedToReadRuntimeVersion" -> Some(e.error)
      [] e.variant = "FailedToGetPendingExtrinsics" -> Some(e.error)
      [] e.variant = "FailedToSubmitTransaction" -> Some(e.error)
      [] e.variant = "FailedStateCall" -> Some(e.error)
      [] e.variant = "FailedToProveStorage" -> Some(e.error)
      [] e.variant = "FailedToSubscribeJustifications" -> Some(e.error)
      [] OTHER -> None

nested_no_prove(e) ==
    CASE e.variant = "FailedToReadBestFinalizedHeaderHash" -> Some(e.error)
      [] e.variant = "FailedToReadBestHeader" -> Some(e.error)
      [] e.variant = "FailedToReadHeaderHashByNumber" -> Some(e.error)
      [] e.variant = "FailedToReadHeaderByHash" -> Some(e.error)
      [] e.variant = "FailedToReadBlockByHash" -> Some(e.error)
      [] e.variant = "FailedToReadStorageValue" -> Some(e.error)
      [] e.variant = "FailedToReadRuntimeVersion" -> Some(e.error)
      [] e.variant = "FailedToGetPendingExtrinsics" -> Some(e.error)
      [] e.variant = "FailedToSubmitTransaction" -> Some(e.error)
      [] e.variant = "FailedStateCall" -> Some(e.error)
      [] e.variant = "FailedToGetSystemHealth" -> Some(e.error)
      [] e.variant = "FailedToSubscribeJustifications" -> Some(e.error)
      [] OTHER -> None

nested(e) ==
    CASE e.variant = "FailedToReadBestFinalizedHeaderHash" -> Some(e.error)
      [] e.variant = "FailedToReadBestHeader" -> Some(e.error)
      [] e.variant = "FailedToReadHeaderHashByNumber" -> Some(e.error)
      [] e.variant = "FailedToReadHeaderByHash" -> Some(e.error)
      [] e.variant = "FailedToReadBlockByHash" -> Some(e.error)
      [] e.variant = "FailedToReadStorageValue" -> Some(e.error)
      [] e.variant = "FailedToReadRuntimeVersion" -> Some(e.error)
      [] e.variant = "FailedToGetPendingExtrinsics" -> Some(e.error)
      [] e.variant = "FailedToSubmitTransaction" -> Some(e.error)
      [] e.variant = "FailedStateCall" -> Some(e.error)
      [] e.variant = "FailedToProveStorage" -> Some(e.error)
      [] e.variant = "FailedToGetSystemHealth" -> Some(e.error)
      [] e.variant = "FailedToSubscribeJustifications" -> Some(e.error)
      [] OTHER -> None

(* ------------------------- is_connection_error ------------------------ *)

\* matches!(*e, RpcError::Transport(_) | RpcError::RestartNeeded(_))
rpc_matches(e) == e.kind = "Transport" \/ e.kind = "RestartNeeded"

RECURSIVE is_connection_error(_)

is_connection_error_no_restart(e) ==
    CASE e.variant = "ChannelError" -> TRUE
      [] e.variant = "RpcError" -> e.f0.kind = "Transport"
      [] e.variant = "ClientNotSynced" -> TRUE
      [] OTHER ->
           LET n == nested(e) IN
               IF n # None THEN is_connection_error(n[1]) ELSE FALSE

is_connection_error_io(e) ==
    CASE e.variant = "ChannelError" -> TRUE
      [] e.variant = "RpcError" -> rpc_matches(e.f0)
      [] e.variant = "ClientNotSynced" -> TRUE
      [] e.variant = "Io" -> TRUE
      [] OTHER ->
           LET n == nested(e) IN
               IF n # None THEN is_connection_error(n[1]) ELSE FALSE

is_connection_error_submit(e) ==
    CASE e.variant = "ChannelError" -> TRUE
      [] e.variant = "RpcError" -> rpc_matches(e.f0)
      [] e.variant = "ClientNotSynced" -> TRUE
      [] e.variant = "FailedToSubmitTransaction" -> e.chain = "Kusama"
      [] OTHER ->
           LET n == nested(e) IN
               IF n # None THEN is_connection_error(n[1]) ELSE FALSE

is_connection_error(e) ==
    CASE e.variant = "ChannelError" -> TRUE
      [] e.variant = "RpcError" -> rpc_matches(e.f0)
      [] e.variant = "ClientNotSynced" -> TRUE
      [] OTHER ->
           LET n == nested(e) IN
               IF n # None THEN is_connection_error(n[1]) ELSE FALSE

(* ------------------------- Debug and Display -------------------------- *)

\* Debug of a String: the text between quotes.
DebugStr(s) == <<"\"", s, "\"">>

\* Debug of a StorageKey and of a Bytes value.
DebugKey(k) == <<"StorageKey(", k, ")">>

DebugBytes(b) == <<"Bytes(", b, ")">>

\* Debug of a Vec<StorageKey>.
RECURSIVE DebugKeyItems(_)

DebugKeyItems(ks) ==
    IF ks = <<>> THEN <<>>
    ELSE IF Len(ks) = 1 THEN DebugKey(Head(ks))
    ELSE DebugKey(Head(ks)) \o <<", ">> \o DebugKeyItems(Tail(ks))

DebugKeys(ks) == <<"[">> \o DebugKeyItems(ks) \o <<"]">>

\* #[derive(Debug)] of Error: the variant name and every field.
RECURSIVE Debug(_)

Debug(e) ==
    CASE e.variant = "Io" -> <<"Io(", e.f0, ")">>
      [] e.variant = "RpcError" ->
           <<"RpcError(", e.f0.kind, "(", e.f0.msg, ")", ")">>
      [] e.variant = "ResponseParseFailed" ->
           <<"ResponseParseFailed(", e.f0, ")">>
      [] e.variant = "ChannelError" ->
           <<"ChannelError(">> \o DebugStr(e.f0) \o <<")">>
      [] e.variant = "MissingRequiredParachainHead" ->
           <<"MissingRequiredParachainHead(", "ParaId(", ToString(e.f0), ")",
             ", ", ToString(e.f1), ")">>
      [] e.variant = "FinalityProofNotFound" ->
           <<"FinalityProofNotFound(", ToString(e.f0), ")">>
      [] e.variant = "ClientNotSynced" ->
           <<"ClientNotSynced(", e.f0, ")">>
      [] e.variant = "BridgePalletIsHalted" -> <<"BridgePalletIsHalted">>
      [] e.variant = "BridgePalletIsNotInitialized" ->
           <<"BridgePalletIsNotInitialized">>
      [] e.variant = "TransactionInvalid" ->
           <<"TransactionInvalid(", e.f0, ")">>
      [] e.variant = "Custom" -> <<"Custom(">> \o DebugStr(e.f0) \o <<")">>
      [] e.variant \in ChainOnlyVariants ->
           <<e.variant, " { ", "chain: ">> \o DebugStr(e.chain)
             \o <<", ", "error: ">> \o Debug(e.error) \o <<" }">>
      [] e.variant = "FailedToReadHeaderHashByNumber" ->
           <<e.variant, " { ", "chain: ">> \o DebugStr(e.chain)
             \o <<", ", "number: ">> \o DebugStr(e.number)
             \o <<", ", "error: ">> \o Debug(e.error) \o <<" }">>
      [] e.variant \in {"FailedToReadHeaderByHash", "FailedToReadBlockByHash"} ->
           <<e.variant, " { ", "chain: ">> \o DebugStr(e.chain)
             \o <<", ", "hash: ">> \o DebugStr(e.hash)
             \o <<", ", "error: ">> \o Debug(e.error) \o <<" }">>
      [] e.variant = "FailedToReadStorageValue" ->
           <<e.variant, " { ", "chain: ">> \o DebugStr(e.chain)
             \o <<", ", "hash: ">> \o DebugStr(e.hash)
             \o <<", ", "key: ">> \o DebugKey(e.key)
             \o <<", ", "error: ">> \o Debug(e.error) \o <<" }">>
      [] e.variant = "FailedStateCall" ->
           <<e.variant, " { ", "chain: ">> \o DebugStr(e.chain)
             \o <<", ", "hash: ">> \o DebugStr(e.hash)
             \o <<", ", "method: ">> \o DebugStr(e.method)
             \o <<", ", "arguments: ">> \o DebugBytes(e.arguments)
             \o <<", ", "error: ">> \o Debug(e.error) \o <<" }">>
      [] e.variant = "FailedToProveStorage" ->
           <<e.variant, " { ", "chain: ">> \o DebugStr(e.chain)
             \o <<", ", "hash: ">> \o DebugStr(e.hash)
             \o <<", ", "storage_keys: ">> \o DebugKeys(e.storage_keys)
             \o <<", ", "error: ">> \o Debug(e.error) \o <<" }">>

\* The #[error("...")] format of every variant.
Display(e) ==
    CASE e.variant = "Io" -> <<"IO error: ", e.f0>>
      [] e.variant = "RpcError" -> <<"RPC error: ", e.f0.msg>>
      [] e.variant = "ResponseParseFailed" ->
           <<"Response parse failed: ", e.f0>>
      [] e.variant = "ChannelError" ->
           <<"Internal communication channel error: ">> \o DebugStr(e.f0)
             \o <<".">>
      [] e.variant = "MissingRequiredParachainHead" ->
           <<"Parachain ", "ParaId(", ToString(e.f0), ")", " head ",
             ToString(e.f1), " is missing from the relay chain storage.">>
      [] e.variant = "FinalityProofNotFound" ->
           <<"Failed to find finality proof for header ", ToString(e.f0), ".">>
      [] e.variant = "ClientNotSynced" ->
           <<"Substrate client is not synced ", e.f0, ".">>
      [] e.variant = "FailedToGetSystemHealth" ->
           <<"Failed to get system health of ", e.chain, " node: ">>
             \o Debug(e.error) \o <<".">>
      [] e.variant = "FailedToReadBestFinalizedHeaderHash" ->
           <<"Failed to read best finalized header hash of ", e.chain, ": ">>
             \o Debug(e.error) \o <<".">>
      [] e.variant = "FailedToReadBestHeader" ->
           <<"Failed to read best header of ", e.chain, ": ">>
             \o Debug(e.error) \o <<".">>
      [] e.variant = "FailedToReadHeaderHashByNumber" ->
           <<"Failed to read header hash by number ", e.number, " of ",
             e.chain, ": ">> \o Debug(e.error) \o <<".">>
      [] e.variant = "FailedToReadHeaderByHash" ->
           <<"Failed to read header ", e.hash, " of ", e.chain, ": ">>
             \o Debug(e.error) \o <<".">>
      [] e.variant = "FailedToReadBlockByHash" ->
           <<"Failed to read block ", e.hash, " of ", e.chain, ": ">>
             \o Debug(e.error) \o <<".">>
      [] e.variant = "FailedToReadStorageValue" ->
           <<"Failed to read storage value ">> \o DebugKey(e.key)
             \o <<" at ", e.chain, ": ">> \o Debug(e.error) \o <<".">>
      [] e.variant = "FailedToReadRuntimeVersion" ->
           <<"Failed to read runtime version of ", e.chain, ": ">>
             \o Debug(e.error) \o <<".">>
      [] e.variant = "FailedToGetPendingExtrinsics" ->
           <<"Failed to get pending extrinsics of ", e.chain, ": ">>
             \o Debug(e.error) \o <<".">>
      [] e.variant = "FailedToSubmitTransaction" ->
           <<"Failed to submit ", e.chain, " transaction: ">>
             \o Debug(e.error) \o <<".">>
      [] e.variant = "FailedStateCall" ->
           <<"Runtime call ", e.method, " with arguments ">>
             \o DebugBytes(e.arguments)
             \o <<" of chain ", e.chain, " at ", e.hash, " has failed: ">>
             \o Debug(e.error) \o <<".">>
      [] e.variant = "FailedToProveStorage" ->
           <<"Failed to prove storage keys ">> \o DebugKeys(e.storage_keys)
             \o <<" of ", e.chain, " at ", e.hash, ": ">>
             \o Debug(e.error) \o <<".">>
      [] e.variant = "FailedToSubscribeJustifications" ->
           <<"Failed to subscribe to ", e.chain, " justifications: ">>
             \o Debug(e.error) \o <<".">>
      [] e.variant = "BridgePalletIsHalted" -> <<"Bridge pallet is halted.">>
      [] e.variant = "BridgePalletIsNotInitialized" ->
           <<"Bridge pallet is not initialized.">>
      [] e.variant = "TransactionInvalid" ->
           <<"Substrate transaction is invalid: ", e.f0>>
      [] e.variant = "Custom" -> <<e.f0>>

(* --------------------------- the state machine ------------------------ *)
(* err     the Error value the client currently holds                      *)
(* lastOp  the conversion or constructor that produced err                 *)
(* cause   the argument e of that constructor (None after a conversion)    *)
(* wraps   how many wrapping operations were applied on top of the leaf    *)
(* pc      idle, or the position of a running is_connection_error call     *)
(*         (classify, classified) or of a caller's loop over nested        *)
(*         (walk, walked)                                                  *)
(* cur     the value the running call or loop currently looks at           *)
(* steps   recursive calls of is_connection_error / nested calls returning *)
(*         Some made so far                                                *)
(* result  the value is_connection_error returned                          *)
(* visited the values the loop over nested has looked at, in order         *)

\* Leaf variants that have no conversion and are built by enum literal.
LiteralLeaves ==
    {MissingRequiredParachainHead(p, n) : p \in ParaIds, n \in Numbers}
      \cup {FinalityProofNotFound(n) : n \in Numbers}
      \cup {ClientNotSynced(h) : h \in Healths}
      \cup {BridgePalletIsHalted, BridgePalletIsNotInitialized}
      \cup {Custom(t) : t \in Texts}

Idle ==
    /\ pc = "idle"
    /\ cur = None
    /\ steps = 0
    /\ result = None
    /\ visited = <<>>

Init ==
    /\ \E v \in LiteralLeaves : err = v
    /\ lastOp = "literal"
    /\ cause = None
    /\ wraps = 0
    /\ Idle

\* A lower-level failure becomes a leaf value.
Fail(op, v) ==
    /\ pc = "idle"
    /\ err' = v
    /\ lastOp' = op
    /\ cause' = None
    /\ wraps' = 0
    /\ UNCHANGED <<pc, cur, steps, result, visited>>

FromIo == \E e \in IoErrors : Fail("from_io", from_io(e))

FromRpc == \E e \in RpcErrors : Fail("from_rpc", from_rpc(e))

FromCodec == \E e \in CodecErrors : Fail("from_codec", from_codec(e))

FromValidity == \E e \in ValidityErrors : Fail("from_validity", from_validity(e))

FromJoin == \E e \in JoinErrors : Fail("from_join", from_join(e))

FromTrySend == \E e \in TrySendErrors : Fail("from_try_send", from_try_send(e))

FromRecv == \E e \in RecvErrors : Fail("from_recv", from_recv(e))

LeafLiteral == \E v \in LiteralLeaves : Fail("literal", v)

\* An operation re-contextualizes the failure it got.
Wrap(op, v) ==
    /\ pc = "idle"
    /\ wraps < MaxDepth
    /\ err' = v
    /\ lastOp' = op
    /\ cause' = Some(err)
    /\ wraps' = wraps + 1
    /\ UNCHANGED <<pc, cur, steps, result, visited>>

FailedToReadHeaderHashByNumber ==
    \E C \in Chains, n \in Numbers :
        Wrap("failed_to_read_header_hash_by_number",
             failed_to_read_header_hash_by_number(C, n, err))

FailedToReadHeaderByHash ==
    \E C \in Chains, h \in Hashes :
        Wrap("failed_to_read_header_by_hash",
             failed_to_read_header_by_hash(C, h, err))

FailedToReadBlockByHash ==
    \E C \in Chains, h \in Hashes :
        Wrap("failed_to_read_block_by_hash",
             failed_to_read_block_by_hash(C, h, err))

FailedToReadBestFinalizedHeaderHash ==
    \E C \in Chains :
        Wrap("failed_to_read_best_finalized_header_hash",
             failed_to_read_best_finalized_header_hash(C, err))

FailedToReadBestHeader ==
    \E C \in Chains :
        Wrap("failed_to_read_best_header", failed_to_read_best_header(C, err))

FailedToReadRuntimeVersion ==
    \E C \in Chains :
        Wrap("failed_to_read_runtime_version",
             failed_to_read_runtime_version(C, err))

FailedToReadStorageValue ==
    \E C \in Chains, h \in Hashes, k \in StorageKeys :
        Wrap("failed_to_read_storage_value",
             failed_to_read_storage_value(C, h, k, err))

FailedToGetPendingExtrinsics ==
    \E C \in Chains :
        Wrap("failed_to_get_pending_extrinsics",
             failed_to_get_pending_extrinsics(C, err))

FailedToSubmitTransaction ==
    \E C \in Chains :
        Wrap("failed_to_submit_transaction",
             failed_to_submit_transaction(C, err))

FailedStateCall ==
    \E C \in Chains, h \in Hashes, m \in Methods, a \in Arguments :
        Wrap("failed_state_call", failed_state_call(C, h, m, a, err))

FailedToProveStorage ==
    \E C \in Chains, h \in Hashes, ks \in StorageKeyLists :
        Wrap("failed_to_prove_storage", failed_to_prove_storage(C, h, ks, err))

FailedToGetSystemHealth ==
    \E C \in Chains :
        Wrap("failed_to_get_system_health",
             failed_to_get_system_health(C, err))

FailedToSubscribeJustifications ==
    \E C \in Chains :
        Wrap("failed_to_subscribe_justification",
             failed_to_subscribe_justification(C, err))

\* The FailedToReadBlockByHash variant, which no constructor yields, built by
\* enum literal.
BlockByHashLiteral ==
    \E C \in Chains, h \in Hashes :
        Wrap("literal",
             [variant |-> "FailedToReadBlockByHash", chain |-> NAME(C),
              hash |-> FormatHash(h), error |-> boxed(err)])

(* One call of is_connection_error on err, one recursive call per step. *)

\* The match of is_connection_error on e: Some(b) when the call returns b
\* without recursing, None when it calls is_connection_error on nested(e).
match_arm_flat(e) ==
    CASE e.variant = "ChannelError" -> Some(TRUE)
      [] e.variant = "RpcError" -> Some(rpc_matches(e.f0))
      [] e.variant = "ClientNotSynced" -> Some(TRUE)
      [] OTHER -> Some(FALSE)

match_arm(e) ==
    CASE e.variant = "ChannelError" -> Some(TRUE)
      [] e.variant = "RpcError" -> Some(rpc_matches(e.f0))
      [] e.variant = "ClientNotSynced" -> Some(TRUE)
      [] OTHER -> IF nested(e) = None THEN Some(FALSE) ELSE None

ClassifyCall ==
    /\ pc = "idle"
    /\ pc' = "classify"
    /\ cur' = Some(err)
    /\ steps' = 0
    /\ result' = None
    /\ UNCHANGED <<err, lastOp, cause, wraps, visited>>

ClassifyRecurse ==
    /\ pc = "classify"
    /\ match_arm(cur[1]) = None
    /\ cur' = nested(cur[1])
    /\ steps' = steps + 1
    /\ UNCHANGED <<err, lastOp, cause, wraps, pc, result, visited>>

\* The innermost call returns; map and unwrap_or hand its value up unchanged.
ClassifyReturn ==
    /\ pc = "classify"
    /\ match_arm(cur[1]) # None
    /\ result' = match_arm(cur[1])
    /\ pc' = "classified"
    /\ UNCHANGED <<err, lastOp, cause, wraps, cur, steps, visited>>

(* A caller's loop: follow nested from err until it returns None. *)

WalkStart ==
    /\ pc = "idle"
    /\ pc' = "walk"
    /\ cur' = Some(err)
    /\ steps' = 0
    /\ visited' = <<err>>
    /\ UNCHANGED <<err, lastOp, cause, wraps, result>>

WalkStep ==
    /\ pc = "walk"
    /\ nested(cur[1]) # None
    /\ cur' = nested(cur[1])
    /\ steps' = steps + 1
    /\ visited' = Append(visited, nested(cur[1])[1])
    /\ UNCHANGED <<err, lastOp, cause, wraps, pc, result>>

WalkEnd ==
    /\ pc = "walk"
    /\ nested(cur[1]) = None
    /\ pc' = "walked"
    /\ UNCHANGED <<err, lastOp, cause, wraps, cur, steps, result, visited>>

\* The caller drops what the call or the loop left.
Done ==
    /\ pc \in {"classified", "walked"}
    /\ pc' = "idle"
    /\ cur' = None
    /\ steps' = 0
    /\ result' = None
    /\ visited' = <<>>
    /\ UNCHANGED <<err, lastOp, cause, wraps>>

Next ==
    \/ FromIo
    \/ FromRpc
    \/ FromCodec
    \/ FromValidity
    \/ FromJoin
    \/ FromTrySend
    \/ FromRecv
    \/ LeafLiteral
    \/ FailedToReadHeaderHashByNumber
    \/ FailedToReadHeaderByHash
    \/ FailedToReadBlockByHash
    \/ FailedToReadBestFinalizedHeaderHash
    \/ FailedToReadBestHeader
    \/ FailedToReadRuntimeVersion
    \/ FailedToReadStorageValue
    \/ FailedToGetPendingExtrinsics
    \/ FailedToSubmitTransaction
    \/ FailedStateCall
    \/ FailedToProveStorage
    \/ FailedToGetSystemHealth
    \/ FailedToSubscribeJustifications
    \/ BlockByHashLiteral
    \/ ClassifyCall
    \/ ClassifyRecurse
    \/ ClassifyReturn
    \/ WalkStart
    \/ WalkStep
    \/ WalkEnd
    \/ Done

Spec == Init /\ [][Next]_vars

(* ------------------------------ properties ---------------------------- *)

\* The structure of a value: whether it has a boxed cause, how many causes
\* lie below it, the leaf at the end, and the values from it down to the leaf.
IsWrapping(e) == "error" \in DOMAIN e

RECURSIVE Depth(_)

Depth(e) == IF IsWrapping(e) THEN 1 + Depth(e.error) ELSE 0

RECURSIVE TerminalLeaf(_)

TerminalLeaf(e) == IF IsWrapping(e) THEN TerminalLeaf(e.error) ELSE e

RECURSIVE CauseChain(_)

CauseChain(e) == IF IsWrapping(e) THEN <<e>> \o CauseChain(e.error) ELSE <<e>>

Range(f) == {f[i] : i \in DOMAIN f}

NoDuplicates(f) == \A i, j \in DOMAIN f : f[i] = f[j] => i = j

ConversionOps ==
    {"from_io", "from_rpc", "from_codec", "from_validity", "from_join",
     "from_try_send", "from_recv"}

\* The variant each constructor's documentation says it constructs.
DocumentedVariant ==
    [failed_to_read_header_hash_by_number |-> "FailedToReadHeaderHashByNumber",
     failed_to_read_header_by_hash |-> "FailedToReadHeaderByHash",
     failed_to_read_block_by_hash |-> "FailedToReadBlockByHash",
     failed_to_read_best_finalized_header_hash |->
         "FailedToReadBestFinalizedHeaderHash",
     failed_to_read_best_header |-> "FailedToReadBestHeader",
     failed_to_read_runtime_version |-> "FailedToReadRuntimeVersion",
     failed_to_read_storage_value |-> "FailedToReadStorageValue",
     failed_to_get_pending_extrinsics |-> "FailedToGetPendingExtrinsics",
     failed_to_submit_transaction |-> "FailedToSubmitTransaction",
     failed_state_call |-> "FailedStateCall",
     failed_to_prove_storage |-> "FailedToProveStorage",
     failed_to_get_system_health |-> "FailedToGetSystemHealth",
     failed_to_subscribe_justification |-> "FailedToSubscribeJustifications"]

ConstructorOps == DOMAIN DocumentedVariant

\* C1: a value of any of the 13 wrapping variants is a connection error
\* exactly when its boxed cause is one (the causes themselves are values
\* reached earlier, so this covers every level of a chain); so wrapping a
\* connection error always yields a connection error.
C1_WrappingIffCause ==
    /\ err.variant \in WrappingVariants =>
          is_connection_error(err) = is_connection_error(err.error)
    /\ cause # None =>
          (is_connection_error(cause[1]) => is_connection_error(err))
    /\ IsWrapping(err) <=> err.variant \in WrappingVariants

C1_Witness ==
    /\ err.variant = "FailedToGetSystemHealth"
    /\ err.error.variant = "FailedToReadBlockByHash"
    /\ is_connection_error(err.error)
    /\ is_connection_error(err)

\* C2 as stated: every ChannelError, every RpcError whatever its sub-kind and
\* every ClientNotSynced leaf is a connection error.
C2_EveryRpcErrorIsConnection ==
    err.variant \in {"ChannelError", "RpcError", "ClientNotSynced"} =>
        is_connection_error(err)

\* C2 amended: every ChannelError and every ClientNotSynced leaf is a
\* connection error; an RpcError leaf is one exactly when its sub-kind is
\* Transport or RestartNeeded.
C2_BaseCases ==
    /\ err.variant \in {"ChannelError", "ClientNotSynced"} =>
          is_connection_error(err)
    /\ err.variant = "RpcError" =>
          (is_connection_error(err)
              <=> err.f0.kind \in {"Transport", "RestartNeeded"})

C2_Witness ==
    /\ err.variant = "RpcError"
    /\ err.f0.kind = "RestartNeeded"
    /\ is_connection_error(err)

\* C3: the value a constructor returns has the variant the constructor is
\* named and documented for.
C3_ConstructorYieldsDocumentedVariant ==
    lastOp \in ConstructorOps => err.variant = DocumentedVariant[lastOp]

\* C4: nested of a value a constructor built from a cause returns that cause,
\* unchanged; nested of a value of a leaf variant returns None.
C4_NestedIsCause ==
    /\ lastOp \in ConstructorOps => cause # None /\ nested(err) = cause
    /\ err.variant \in LeafVariants => nested(err) = None
    /\ err.variant \in LeafVariants \cup WrappingVariants

C4_Witness ==
    /\ lastOp = "failed_to_read_best_header"
    /\ cause # None
    /\ cause[1].variant = "FailedToReadStorageValue"
    /\ nested(err) = cause

\* The texts a value carries: its context fields, and those of its cause.
FieldTexts(e) ==
    {e.chain}
      \cup (IF "number" \in DOMAIN e THEN {e.number} ELSE {})
      \cup (IF "hash" \in DOMAIN e THEN {e.hash} ELSE {})
      \cup (IF "key" \in DOMAIN e THEN {e.key} ELSE {})
      \cup (IF "method" \in DOMAIN e THEN {e.method} ELSE {})
      \cup (IF "arguments" \in DOMAIN e THEN {e.arguments} ELSE {})
      \cup (IF "storage_keys" \in DOMAIN e THEN Range(e.storage_keys) ELSE {})

PayloadTexts(e) ==
    CASE e.variant = "RpcError" -> {e.f0.msg}
      [] e.variant = "MissingRequiredParachainHead" ->
           {ToString(e.f0), ToString(e.f1)}
      [] e.variant = "FinalityProofNotFound" -> {ToString(e.f0)}
      [] e.variant \in {"BridgePalletIsHalted", "BridgePalletIsNotInitialized"} ->
           {}
      [] OTHER -> {e.f0}

RECURSIVE MessageTexts(_)

MessageTexts(e) ==
    IF IsWrapping(e) THEN FieldTexts(e) \cup MessageTexts(e.error)
    ELSE PayloadTexts(e)

\* C5: the Display of a wrapping value contains every context field of the
\* value and the message of its cause.
C5_DisplayRendersAllFields ==
    IsWrapping(err) =>
        FieldTexts(err) \cup MessageTexts(err.error) \subseteq Range(Display(err))

NegativeLeafVariants ==
    {"Io", "ResponseParseFailed", "MissingRequiredParachainHead",
     "FinalityProofNotFound", "BridgePalletIsHalted",
     "BridgePalletIsNotInitialized", "TransactionInvalid", "Custom"}

\* C6: a leaf of kind Io, ResponseParseFailed, MissingRequiredParachainHead,
\* FinalityProofNotFound, BridgePalletIsHalted, BridgePalletIsNotInitialized,
\* TransactionInvalid or Custom is no connection error, nor is any chain of
\* wrappers that ends in such a leaf.
C6_NegativeLeavesStable ==
    TerminalLeaf(err).variant \in NegativeLeafVariants =>
        /\ ~is_connection_error(TerminalLeaf(err))
        /\ ~is_connection_error(err)

C6_Witness ==
    /\ wraps = 2
    /\ TerminalLeaf(err).variant = "Io"
    /\ ~is_connection_error(err)

\* C7: each conversion from a JoinError, a TrySendError or a RecvError is
\* defined for every input and yields a ChannelError leaf, which has no nested
\* cause and is a connection error.
C7_ConcurrencyFailuresAreChannelErrors ==
    /\ lastOp \in {"from_join", "from_try_send", "from_recv"} =>
          /\ err.variant = "ChannelError"
          /\ nested(err) = None
          /\ is_connection_error(err)
    /\ \A v \in {from_join(e) : e \in JoinErrors}
                \cup {from_try_send(e) : e \in TrySendErrors}
                \cup {from_recv(e) : e \in RecvErrors} :
          /\ v.variant = "ChannelError"
          /\ nested(v) = None
          /\ is_connection_error(v)

C7_Witness ==
    /\ lastOp = "from_recv"
    /\ err.variant = "ChannelError"
    /\ is_connection_error(err)

\* C8: following nested from a value built by conversions and constructors
\* never meets a value twice and ends at a leaf after exactly as many steps
\* as wrapping operations were applied.
C8_WalkEndsAtDepth ==
    /\ pc \in {"walk", "walked"} =>
          /\ steps <= wraps
          /\ Len(visited) = steps + 1
          /\ NoDuplicates(visited)
          /\ cur = Some(visited[Len(visited)])
    /\ pc = "walked" =>
          /\ steps = wraps
          /\ nested(cur[1]) = None
          /\ cur[1].variant \in LeafVariants
          /\ visited = CauseChain(err)

C8_Witness ==
    /\ pc = "walked"
    /\ steps = 2
    /\ wraps = 2
    /\ lastOp \in ConstructorOps
    /\ err.variant = "FailedToProveStorage"

\* C9: a call of is_connection_error on any value always can take its next
\* step, returns a boolean after as many recursive calls as the value has
\* causes below it, and leaves the value as it was.
C9_ClassifierTotal ==
    /\ [](/\ pc = "classify" =>
                /\ cur # None
                /\ steps + Depth(cur[1]) = Depth(err)
                /\ (ENABLED ClassifyRecurse) \/ (ENABLED ClassifyReturn)
          /\ pc = "classified" =>
                /\ result \in {Some(TRUE), Some(FALSE)}
                /\ steps = Depth(err)
                /\ steps = wraps
                /\ result = Some(is_connection_error(err)))
    /\ [][(pc \in {"classify", "classified"}) => (err' = err)]_vars

C9_Witness ==
    /\ pc = "classified"
    /\ steps = 2
    /\ result = Some(TRUE)
    /\ TerminalLeaf(err).variant = "ChannelError"

\* C10: whether a value is a connection error depends only on the leaf its
\* cause chain ends in, whatever wrappers and context fields lie between.
C10_OnlyTerminalLeafMatters ==
    is_connection_error(err) = is_connection_error(TerminalLeaf(err))

C10_Witness ==
    /\ wraps = 2
    /\ err.variant = "FailedToSubmitTransaction"
    /\ err.chain = "Kusama"
    /\ err.error.chain = "Polkadot"
    /\ TerminalLeaf(err).variant = "Io"
    /\ ~is_connection_error(err)

====
